---- MODULE Spec2Model ----
(***************************************************************************)
(* Dataset generation and persistence of neuralbec/data.py:               *)
(* generate_varg (sampling loop, record shaping), save and load.          *)
(*                                                                         *)
(* A behaviour is one session of a single-threaded caller: any number of  *)
(* save / load calls, then at most one generate_varg run, then loads of   *)
(* what is in storage.  Generation runs that happened earlier are         *)
(* represented by the datasets that save has already put in storage.      *)
(* An uncaught exception ends the session (pc = "raised").                *)
(*                                                                         *)
(* Strings (file names, paths, storage keys) are sequences of characters, *)
(* floats are integers, numpy arrays are sequences.                       *)
(***************************************************************************)
EXTENDS Integers, Sequences, FiniteSets, TLC

VARIABLES
  pc,          \* position of the caller / of generate_varg
  disk,        \* persistent storage: resolved file key -> pickled dictionary
  heap,        \* Python dict objects returned by fn, by object id (1..Len)
  args,        \* arguments of the generate_varg call
  samples,     \* the array drawn by np.random.uniform            (line 46)
  datapoints,  \* local list `datapoints`                         (line 45)
  ref,         \* local `ref` (= `datadict` after line 50), object id or Unbound
  result,      \* object id returned by generate_varg, or Unbound
  exc,         \* the uncaught exception, "" when none
  calls,       \* history: what each completed fn(g) call got and returned
  invoked,     \* history: number of invocations of fn, failed ones included
  writes,      \* history: the files written during the generate_varg run
  prev,        \* history: storage as it was before the latest save / at run start
  lastSave,    \* history: the latest save call
  lastLoad     \* history: the latest load call after lastSave

vars == <<pc, disk, heap, args, samples, datapoints, ref, result, exc,
          calls, invoked, writes, prev, lastSave, lastLoad>>

----------------------------------------------------------------------------
(* Bounds of the model *)

MaxSamples == 2     \* num_samples ranges over 0..MaxSamples
MaxG == 2           \* g_low, g_high range over 0..MaxG

----------------------------------------------------------------------------
(* Strings *)

Slash == "/"
DotData == <<".", "d", "a", "t", "a">>
DefaultPath == <<"d", "a", "t", "a", "/">>           \* path='data/'
BarePath == <<"d", "a", "t", "a">>                   \* path='data'
NameT == <<"t">>
NameTData == NameT \o DotData

FileNames == {NameT, NameTData}
Paths == {DefaultPath, BarePath}

\* posixpath.join(a, b) as called on line 140
OsPathJoinAppendsSuffix(a, b) ==
  IF b # <<>> /\ Head(b) = Slash THEN b \o DotData
  ELSE IF a = <<>> \/ a[Len(a)] = Slash THEN a \o b \o DotData
  ELSE a \o <<Slash>> \o b \o DotData

OsPathJoin(a, b) ==
  IF b # <<>> /\ Head(b) = Slash THEN b
  ELSE IF a = <<>> \/ a[Len(a)] = Slash THEN a \o b
  ELSE a \o <<Slash>> \o b

\* '{}/{}.data'.format(path, name) on line 121
LoadFileName(path, name) == path \o <<Slash>> \o name \o DotData

\* open(): the file system treats a run of slashes as one separator
RECURSIVE Resolve(_)
Resolve(p) ==
  IF Len(p) < 2 THEN p
  ELSE IF p[1] = Slash /\ p[2] = Slash THEN Resolve(Tail(p))
  ELSE <<p[1]>> \o Resolve(Tail(p))

----------------------------------------------------------------------------
(* Values *)

Unbound == 0

XAxis(d) == [k \in 1..d |-> k - 1]                        \* grid coordinates
Psi(d) == [k \in 1..d |-> IF k = d THEN 1 ELSE 0]         \* density, max = 1
Dims == {1, 2}             \* lattice sizes: lengths of x and of a density
XAxes == {XAxis(d) : d \in Dims}
Psis == {Psi(d) : d \in Dims}
GValues == 0..MaxG

\* np.random.uniform(g_low, g_high, num_samples): every array of
\* num_samples values of [g_low, g_high); all equal g_low when g_low = g_high
RECURSIVE SeqsOf(_, _)
SeqsOf(S, n) ==
  IF n = 0 THEN {<<>>}
  ELSE {Append(s, v) : s \in SeqsOf(S, n - 1), v \in S}

UniformClosed(lo, hi, n) == SeqsOf(lo..hi, n)

Uniform(lo, hi, n) == SeqsOf(IF lo = hi THEN {lo} ELSE lo..(hi - 1), n)

\* the tuple (g, psi) appended on line 49
DatapointTruncated(g, psi) == <<g, SubSeq(psi, 1, Len(psi) - 1)>>

Datapoint(g, psi) == <<g, psi>>

\* the dictionary { 'x' : ... } a simulation returns (line 100)
Reference(x) == [x |-> x]

\* datadict['data'] = datapoints on a dictionary that has the key 'x' (line 51)
SetData(d, dps) == [x |-> d.x, data |-> dps]

\* the comprehensions of load (lines 122-124)
Inputs(dump) == [k \in 1..Len(dump.data) |-> dump.data[k][1]]
Outputs(dump) == [k \in 1..Len(dump.data) |-> dump.data[k][2]]

\* pickle.dump(datadict, open(filename, 'wb')): the file is created or
\* truncated and holds the dictionary's value
WriteFileKeepExisting(d, key, blob) ==
  [k \in DOMAIN d \cup {key} |-> IF k \in DOMAIN d THEN d[k] ELSE blob]

WriteFile(d, key, blob) ==
  [k \in DOMAIN d \cup {key} |-> IF k = key THEN blob ELSE d[k]]

\* Datasets a caller hands to save directly
DatasetA ==
  [x |-> XAxis(2), data |-> <<Datapoint(0, Psi(2)), Datapoint(1, Psi(2))>>]
DatasetB == [x |-> XAxis(1), data |-> <<Datapoint(1, Psi(1))>>]
Datasets == {DatasetA, DatasetB}

NoSave == [valid |-> FALSE, datadict |-> DatasetB, name |-> <<>>,
           path |-> <<>>, key |-> <<>>]
NoLoad == [status |-> "none", name |-> <<>>, path |-> <<>>, key |-> <<>>,
           inputs |-> <<>>, outputs |-> <<>>, reference |-> Reference(<<>>)]
NoArgs == [num_samples |-> 0, filename |-> <<>>, g_low |-> 0, g_high |-> 0]

----------------------------------------------------------------------------
Init ==
  /\ pc = "idle"
  /\ disk = <<>>
  /\ heap = <<>>
  /\ args = NoArgs
  /\ samples = <<>>
  /\ datapoints = <<>>
  /\ ref = Unbound
  /\ result = Unbound
  /\ exc = ""
  /\ calls = <<>>
  /\ invoked = 0
  /\ writes = <<>>
  /\ prev = <<>>
  /\ lastSave = NoSave
  /\ lastLoad = NoLoad

\* save(datadict, name, path) called by the user               (lines 128-142)
Save(D, name, path) ==
  /\ pc = "idle"
  /\ LET filename == OsPathJoin(path, name)
         key == Resolve(filename)
     IN /\ disk' = WriteFile(disk, key, D)
        /\ lastSave' = [valid |-> TRUE, datadict |-> D, name |-> name,
                        path |-> path, key |-> key]
  /\ prev' = disk
  /\ lastLoad' = NoLoad
  /\ UNCHANGED <<pc, heap, args, samples, datapoints, ref, result, exc,
                 calls, invoked, writes>>

\* load(name, path)                                            (lines 120-125)
Load(name, path) ==
  /\ pc \in {"idle", "returned"}
  /\ LET key == Resolve(LoadFileName(path, name))
     IN IF key \in DOMAIN disk
        THEN /\ lastLoad' = [status |-> "ok", name |-> name, path |-> path,
                             key |-> key,
                             inputs |-> Inputs(disk[key]),
                             outputs |-> Outputs(disk[key]),
                             reference |-> Reference(disk[key].x)]
             /\ UNCHANGED <<pc, exc>>
        ELSE /\ lastLoad' = [NoLoad EXCEPT !.status = "FileNotFoundError",
                               !.name = name, !.path = path, !.key = key]
             /\ pc' = "raised"
             /\ exc' = "FileNotFoundError"
  /\ UNCHANGED <<disk, heap, args, samples, datapoints, ref, result,
                 calls, invoked, writes, prev, lastSave>>

\* generate_varg(fn, num_samples, filename, g_low, g_high): lines 45-46,
\* the empty list and the array of samples
GenerateStart(n, filename, lo, hi) ==
  /\ pc = "idle"
  /\ lo <= hi
  /\ \E s \in Uniform(lo, hi, n) : samples' = s
  /\ args' = [num_samples |-> n, filename |-> filename,
              g_low |-> lo, g_high |-> hi]
  /\ datapoints' = <<>>
  /\ ref' = Unbound
  /\ prev' = disk
  /\ lastSave' = NoSave
  /\ lastLoad' = NoLoad
  /\ pc' = "loop"
  /\ UNCHANGED <<disk, heap, result, exc, calls, invoked, writes>>

\* one iteration of the loop, fn(g) returns (ref, psi)          (lines 46-49)
FnReturnKeepsFirstRef(x, psi) ==
  /\ pc = "loop"
  /\ Len(datapoints) < Len(samples)
  /\ LET g == samples[Len(datapoints) + 1]
     IN /\ heap' = Append(heap, Reference(x))
        /\ ref' = IF ref = Unbound THEN Len(heap) + 1 ELSE ref
        /\ datapoints' = Append(datapoints, Datapoint(g, psi))
        /\ calls' = Append(calls, [g |-> g, obj |-> Len(heap) + 1,
                                   ref |-> Reference(x), psi |-> psi])
  /\ invoked' = invoked + 1
  /\ UNCHANGED <<pc, disk, args, samples, result, exc, writes, prev,
                 lastSave, lastLoad>>

FnReturn(x, psi) ==
  /\ pc = "loop"
  /\ Len(datapoints) < Len(samples)
  /\ LET g == samples[Len(datapoints) + 1]
     IN /\ heap' = Append(heap, Reference(x))
        /\ ref' = Len(heap) + 1
        /\ datapoints' = Append(datapoints, Datapoint(g, psi))
        /\ calls' = Append(calls, [g |-> g, obj |-> Len(heap) + 1,
                                   ref |-> Reference(x), psi |-> psi])
  /\ invoked' = invoked + 1
  /\ UNCHANGED <<pc, disk, args, samples, result, exc, writes, prev,
                 lastSave, lastLoad>>

\* one iteration of the loop, fn(g) raises: nothing catches it  (line 48)
FnRaiseSavesPartial ==
  /\ pc = "loop"
  /\ Len(datapoints) < Len(samples)
  /\ invoked' = invoked + 1
  /\ pc' = "raised"
  /\ exc' = "FnError"
  /\ LET key == Resolve(OsPathJoin(DefaultPath, args.filename))
     IN /\ disk' = WriteFile(disk, key, [x |-> <<>>, data |-> datapoints])
        /\ writes' = Append(writes, [key |-> key, after |-> invoked])
  /\ UNCHANGED <<heap, args, samples, datapoints, ref, result,
                 calls, prev, lastSave, lastLoad>>

FnRaise ==
  /\ pc = "loop"
  /\ Len(datapoints) < Len(samples)
  /\ invoked' = invoked + 1
  /\ pc' = "raised"
  /\ exc' = "FnError"
  /\ UNCHANGED <<disk, heap, args, samples, datapoints, ref, result,
                 calls, writes, prev, lastSave, lastLoad>>

\* datadict = ref; datadict['data'] = datapoints                (lines 50-51)
\* datadict is the object ref names, not a copy of it
MergeDefaultsRef ==
  /\ pc = "loop"
  /\ Len(datapoints) = Len(samples)
  /\ IF ref = Unbound
     THEN /\ heap' = Append(heap, SetData(Reference(<<>>), datapoints))
          /\ ref' = Len(heap) + 1
     ELSE /\ heap' = [heap EXCEPT ![ref] = SetData(heap[ref], datapoints)]
          /\ UNCHANGED ref
  /\ pc' = "save"
  /\ UNCHANGED <<disk, args, samples, datapoints, result, exc,
                 calls, invoked, writes, prev, lastSave, lastLoad>>

Merge ==
  /\ pc = "loop"
  /\ Len(datapoints) = Len(samples)
  /\ IF ref = Unbound
     THEN /\ pc' = "raised"
          /\ exc' = "UnboundLocalError"
          /\ UNCHANGED heap
     ELSE /\ heap' = [heap EXCEPT ![ref] = SetData(heap[ref], datapoints)]
          /\ pc' = "save"
          /\ UNCHANGED exc
  /\ UNCHANGED <<disk, args, samples, datapoints, ref, result,
                 calls, invoked, writes, prev, lastSave, lastLoad>>

\* save(datadict, filename), path defaulted to 'data/'          (line 53)
PersistBeforeData ==
  /\ pc = "save"
  /\ LET key == Resolve(OsPathJoin(DefaultPath, args.filename))
     IN /\ disk' = WriteFile(disk, key, Reference(heap[ref].x))
        /\ writes' = Append(writes, [key |-> key, after |-> invoked])
        /\ lastSave' = [valid |-> TRUE, datadict |-> heap[ref],
                        name |-> args.filename, path |-> DefaultPath,
                        key |-> key]
  /\ pc' = "return"
  /\ UNCHANGED <<heap, args, samples, datapoints, ref, result, exc,
                 calls, invoked, prev, lastLoad>>

Persist ==
  /\ pc = "save"
  /\ LET key == Resolve(OsPathJoin(DefaultPath, args.filename))
     IN /\ disk' = WriteFile(disk, key, heap[ref])
        /\ writes' = Append(writes, [key |-> key, after |-> invoked])
        /\ lastSave' = [valid |-> TRUE, datadict |-> heap[ref],
                        name |-> args.filename, path |-> DefaultPath,
                        key |-> key]
  /\ pc' = "return"
  /\ UNCHANGED <<heap, args, samples, datapoints, ref, result, exc,
                 calls, invoked, prev, lastLoad>>

\* return datadict                                              (line 54)
Return ==
  /\ pc = "return"
  /\ result' = ref
  /\ pc' = "returned"
  /\ UNCHANGED <<disk, heap, args, samples, datapoints, ref, exc,
                 calls, invoked, writes, prev, lastSave, lastLoad>>

Next ==
  \/ \E D \in Datasets, name \in FileNames, path \in Paths : Save(D, name, path)
  \/ \E name \in FileNames, path \in Paths : Load(name, path)
  \/ \E n \in 0..MaxSamples, filename \in FileNames, lo \in GValues,
        hi \in GValues : GenerateStart(n, filename, lo, hi)
  \/ \E x \in XAxes, psi \in Psis : FnReturn(x, psi)
  \/ FnRaise
  \/ Merge
  \/ Persist
  \/ Return

Spec == Init /\ [][Next]_vars

----------------------------------------------------------------------------
(* Properties *)

\* what the claims call the coupling values and the density sequences of a
\* Dataset, and the storage key {path}/{name}
Couplings(D) == [k \in 1..Len(D.data) |-> D.data[k][1]]
Densities(D) == [k \in 1..Len(D.data) |-> D.data[k][2]]
KeyOf(path, name) == Resolve(path \o <<Slash>> \o name)
Loaded == lastLoad.status # "none"
LoadReturns(D) ==
  /\ lastLoad.status = "ok"
  /\ lastLoad.inputs = Couplings(D)
  /\ lastLoad.outputs = Densities(D)
  /\ lastLoad.reference = [x |-> D.x]
Completed == pc = "returned"
Returned == heap[result]
RunKey == KeyOf(DefaultPath, args.filename)
InRun ==
  \/ pc \in {"loop", "save", "return", "returned"}
  \/ pc = "raised" /\ exc \in {"FnError", "UnboundLocalError"}

\* C1: save(D, name) followed by load(name), same name and same path, returns
\* D's coupling values as inputs, D's density sequences as outputs and
\* reference = {x: D.x}.
C1_RoundTripSameName ==
  (lastSave.valid /\ Loaded /\ lastLoad.name = lastSave.name
     /\ lastLoad.path = lastSave.path)
  => LoadReturns(lastSave.datadict)

\* C2: save(D, m, path) writes the key {path}/{m}, nothing appended; load(n,
\* path) reads the key {path}/{n}.data; so with the same path load(n) reads
\* what save(D, m) wrote if and only if m = n + '.data', and then it returns
\* D's inputs, outputs and x.
C2_SuffixDecidesMatch ==
  /\ lastSave.valid => lastSave.key = KeyOf(lastSave.path, lastSave.name)
  /\ Loaded => lastLoad.key = KeyOf(lastLoad.path, lastLoad.name \o DotData)
  /\ (lastSave.valid /\ Loaded /\ lastLoad.path = lastSave.path)
     => /\ (lastLoad.key = lastSave.key)
             <=> (lastSave.name = lastLoad.name \o DotData)
        /\ (lastSave.name = lastLoad.name \o DotData)
             => LoadReturns(lastSave.datadict)

C2_Witness ==
  /\ lastSave.valid
  /\ lastLoad.status = "ok"
  /\ lastLoad.path = lastSave.path
  /\ lastSave.name = lastLoad.name \o DotData
  /\ Len(lastLoad.inputs) >= 2

\* C3: with num_samples = n >= 1 and g_low < g_high, a completed generate_varg
\* returns a Dataset with exactly n data entries, every coupling g with
\* g_low <= g < g_high, and fn was invoked exactly n times, once per sample.
C3_CountAndRange ==
  (Completed /\ args.num_samples >= 1 /\ args.g_low < args.g_high)
  => /\ Len(Returned.data) = args.num_samples
     /\ \A k \in 1..Len(Returned.data) :
          /\ args.g_low <= Returned.data[k][1]
          /\ Returned.data[k][1] < args.g_high
     /\ invoked = args.num_samples
     /\ Len(calls) = args.num_samples
     /\ \A k \in 1..Len(calls) : calls[k].g = samples[k]

C3_Witness ==
  /\ Completed
  /\ args.g_low < args.g_high
  /\ args.num_samples >= 2
  /\ Returned.data[1][1] # Returned.data[2][1]

\* C4: in the returned Dataset data[i] = (g_i, density of the i-th call
\* fn(g_i)) in sampling order, and x is the x of the reference of the last
\* invocation of fn, whatever earlier invocations returned.
C4_PairsInOrderLastReference ==
  Completed
  => /\ Len(Returned.data) = Len(samples)
     /\ Len(calls) = Len(samples)
     /\ \A k \in 1..Len(samples) :
          /\ calls[k].g = samples[k]
          /\ Returned.data[k] = <<samples[k], calls[k].psi>>
     /\ Returned.x = calls[Len(calls)].ref.x

C4_Witness ==
  /\ Completed
  /\ Len(calls) >= 2
  /\ calls[1].ref.x # calls[2].ref.x
  /\ calls[1].psi # calls[2].psi
  /\ samples[1] # samples[2]

\* C5: when an invocation of fn fails, generate_varg aborts with that error:
\* no further sample is run, save is never called, nothing is returned and
\* storage is exactly as it was before the call.
C5_FailureAbortsWithoutSaving ==
  (pc = "raised" /\ exc = "FnError")
  => /\ invoked = Len(calls) + 1
     /\ Len(datapoints) = Len(calls)
     /\ writes = <<>>
     /\ ~lastSave.valid
     /\ disk = prev
     /\ result = Unbound
     /\ ~ENABLED Next

C5_Witness ==
  /\ pc = "raised"
  /\ exc = "FnError"
  /\ Len(calls) >= 1
  /\ Len(datapoints) < Len(samples)
  /\ RunKey \in DOMAIN disk

\* C6: a completed generate_varg wrote storage exactly once, under
\* {path}/{filename}, after all num_samples invocations of fn and before
\* returning; at return the stored blob equals the returned Dataset.
C6_SavedOnceBeforeReturn ==
  /\ pc \in {"loop", "save"} => writes = <<>>
  /\ (pc = "loop" /\ Len(datapoints) < Len(samples)) => disk = prev
  /\ pc \in {"return", "returned"}
     => /\ Len(writes) = 1
        /\ writes[1].key = RunKey
        /\ writes[1].after = args.num_samples
        /\ invoked = args.num_samples
        /\ DOMAIN disk = DOMAIN prev \cup {RunKey}
        /\ \A k \in DOMAIN prev \ {RunKey} : disk[k] = prev[k]
  /\ Completed
     => /\ disk[RunKey] = Returned
        /\ disk[RunKey].x = Returned.x
        /\ disk[RunKey].data = Returned.data

C6_Witness ==
  /\ Completed
  /\ Len(Returned.data) >= 2
  /\ RunKey \in DOMAIN prev
  /\ prev[RunKey] # Returned

\* C7 as claimed: in every Dataset returned and persisted by generate_varg
\* every density sequence has the length of x, for any fn.
Aligned(D) == \A k \in 1..Len(D.data) : Len(D.data[k][2]) = Len(D.x)

C7_AlignedForAnyFn ==
  Completed => Aligned(Returned) /\ Aligned(disk[RunKey])

\* C7 as amended: the same, provided every invocation of fn returned a
\* density as long as the x of the reference it returned, and all invocations
\* returned x sequences of one length.
FnAligned ==
  /\ \A k \in 1..Len(calls) : Len(calls[k].psi) = Len(calls[k].ref.x)
  /\ \A j, k \in 1..Len(calls) : Len(calls[j].ref.x) = Len(calls[k].ref.x)

C7_AlignedWhenFnAligned ==
  (Completed /\ FnAligned) => Aligned(Returned) /\ Aligned(disk[RunKey])

C7_Witness ==
  /\ Completed
  /\ FnAligned
  /\ Len(Returned.data) >= 2
  /\ Len(Returned.x) >= 2

\* C8: save overwrites silently: after a save the blob at {path}/{name} is the
\* Dataset of the most recent save of that name, whether or not the key
\* existed, and every other key holds what it held before.
C8_SaveOverwritesOnlyItsKey ==
  lastSave.valid
  => LET key == KeyOf(lastSave.path, lastSave.name)
     IN /\ key \in DOMAIN disk
        /\ disk[key] = lastSave.datadict
        /\ DOMAIN disk = DOMAIN prev \cup {key}
        /\ \A k \in DOMAIN prev \ {key} : disk[k] = prev[k]
        /\ exc \in {"", "FileNotFoundError"}

C8_Witness ==
  /\ lastSave.valid
  /\ pc = "idle"
  /\ lastSave.key \in DOMAIN prev
  /\ prev[lastSave.key] # lastSave.datadict
  /\ \E k \in DOMAIN prev : k # lastSave.key

\* C9: after generate_varg completes, every reference object fn returned has
\* exactly the contents it had when fn returned it (only the key x).
C9_ReferencesNotMutated ==
  Completed
  => \A k \in 1..Len(calls) :
       /\ DOMAIN heap[calls[k].obj] = {"x"}
       /\ heap[calls[k].obj].x = calls[k].ref.x

\* C10: generate_varg with num_samples = 0 never invokes fn and ends in an
\* error instead of returning a Dataset; save is not called and storage is
\* unchanged.
C10_ZeroSamplesRaises ==
  (InRun /\ args.num_samples = 0)
  => /\ pc \in {"loop", "raised"}
     /\ pc = "raised" => exc = "UnboundLocalError"
     /\ pc = "loop" => ENABLED Merge /\ ~ENABLED FnRaise
     /\ invoked = 0
     /\ calls = <<>>
     /\ writes = <<>>
     /\ ~lastSave.valid
     /\ disk = prev
     /\ result = Unbound

C10_Witness ==
  /\ InRun
  /\ args.num_samples = 0
  /\ pc = "raised"
  /\ exc = "UnboundLocalError"
  /\ DOMAIN disk # {}

====
